---- MODULE Spec2Model ----
(***************************************************************************)
(* A model of the VQAv2 dataset reader                                     *)
(* (allennlp_models/vision/dataset_readers/vqav2.py) and of the greedy /   *)
(* beam-search decoding comparison exercised by                            *)
(* tests/generation/models/simple_seq2seq_test.py.                         *)
(*                                                                         *)
(* Python dicts are modelled as association lists: sequences of            *)
(* <<key, value>> pairs with distinct keys, in insertion order.            *)
(* Floats are modelled as exact fractions <<numerator, denominator>>.      *)
(***************************************************************************)
EXTENDS Integers, Sequences, FiniteSets, TLC

\* ------------------------------------------------------------------ bounds

\* Longest list of splits handed to _read.
MaxSplits == 2
\* Cap on the number of times one split's annotation file is parsed between
\* two evictions of its cache entry.
MaxParses == 2
\* Largest answer count get_score is examined on.
MaxCount == 6

\* Optional values: None is the empty sequence, a present value v is <<v>>.
None == <<>>
Some(v) == <<v>>

\* ------------------------------------------------------- python dictionaries

RECURSIVE DictIndex(_, _, _)
\* Position of key k in association list d at or after position i; 0 if absent.
DictIndex(d, k, i) ==
  IF i > Len(d) THEN 0
  ELSE IF d[i][1] = k THEN i
  ELSE DictIndex(d, k, i + 1)

DictHas(d, k) == DictIndex(d, k, 1) # 0

\* dict.get(k): the value, or None.
DictGet(d, k) ==
  LET i == DictIndex(d, k, 1) IN IF i = 0 THEN None ELSE Some(d[i][2])


\* d[k] = v: overwrite in place, or append a new key.
DictSet(d, k, v) ==
  LET i == DictIndex(d, k, 1)
  IN IF i = 0 THEN Append(d, <<k, v>>) ELSE [d EXCEPT ![i] = <<k, v>>]

\* Counter: counter[k] += 1 (a missing key counts as 0).
CounterIncr(d, k) ==
  LET i == DictIndex(d, k, 1)
  IN IF i = 0 THEN Append(d, <<k, 1>>) ELSE [d EXCEPT ![i] = <<k, d[i][2] + 1>>]

DictKeys(d) == {d[i][1] : i \in 1..Len(d)}

Min(a, b) == IF a < b THEN a ELSE b

\* ------------------------------------------------------------------ fractions

RatLess(a, b) == a[1] * b[2] < b[1] * a[2]
RatLeq(a, b) == a[1] * b[2] <= b[1] * a[2]
RatEq(a, b) == a[1] * b[2] = b[1] * a[2]
RatMin(a, b) == IF RatLess(b, a) THEN b ELSE a

\* get_score with the cap left out.
get_score_uncapped(count) == <<count, 3>>

\* get_score dividing by 2 instead of 3.
get_score_halves(count) == RatMin(<<1, 1>>, <<count, 2>>)

\* def get_score(count): return min(1.0, count / 3)
get_score(count) == RatMin(<<1, 1>>, <<count, 3>>)

\* ------------------------------------------------------------------ fixtures

\* The table of splits of _read: each names an annotations file (None for a
\* test split) and a questions file.
splits ==
  [unittest |-> [annotations |-> Some("unittest/annotations.json"),
                 questions |-> "unittest/questions.json"],
   balanced_real_val |-> [annotations |-> Some("val/annotations.json"),
                          questions |-> "val/questions.json"],
   balanced_real_test |-> [annotations |-> None,
                           questions |-> "test/questions.json"]]

\* The "questions" array of each questions file.
QuestionsFile(path) ==
  CASE path = "unittest/questions.json" ->
         << [question_id |-> 11, image_id |-> 1, question |-> "q11"],
            [question_id |-> 12, image_id |-> 2, question |-> "q12"],
            [question_id |-> 13, image_id |-> 1, question |-> "q13"] >>
    [] path = "val/questions.json" ->
         << [question_id |-> 21, image_id |-> 3, question |-> "q21"],
            [question_id |-> 22, image_id |-> 2, question |-> "q22"] >>
    [] path = "test/questions.json" ->
         << [question_id |-> 31, image_id |-> 4, question |-> "q31"] >>

\* The "annotations" array of each annotations file.  Question 13 has no
\* annotation; question 11 has answers counted 4 and 3.
AnnotationsFile(path) ==
  CASE path = "unittest/annotations.json" ->
         << [question_id |-> 11,
             answers |-> <<"yes", "Yes", "no", "yes", "no", "yes", "no">>,
             multiple_choice_answer |-> "Yes"],
            [question_id |-> 12,
             answers |-> <<"two", "cat", "2">>,
             multiple_choice_answer |-> "two"] >>
    [] path = "val/annotations.json" ->
         << [question_id |-> 21,
             answers |-> <<"no", "cat", "cat", "no", "cat">>,
             multiple_choice_answer |-> "cat"],
            [question_id |-> 22,
             answers |-> <<"Yes", "no", "no">>,
             multiple_choice_answer |-> "no"] >>

\* The image files found under image_dir, by image id (image 4 is absent).
ImageFiles == [id \in {1, 2, 3} |-> <<"image_dir", id>>]

\* The raw answers of the "answers" namespace of the answer vocabulary.
AnswerVocabTokens == {"Yes", "two"}

\* ------------------------------------------------------------------- helpers

\* utils.preprocess_answer: normalises an answer (case, number words).
PreprocessAnswer(a) ==
  CASE a = "Yes" -> "yes"
    [] a = "two" -> "2"
    [] OTHER -> a

\* str(question_id)
Str(n) == ToString(n)

\* utils.get_data_slice: "name[lo:hi]" gives (slice(lo, hi), "name"); a plain
\* name gives the whole range.  A split name is modelled by its parts.
get_data_slice(split_name) == <<split_name.slice, split_name.name>>

\* questions[question_slice], with None for an omitted start or stop.
SliceSeq(s, slice) ==
  LET clip(n) == IF n > Len(s) THEN Len(s) ELSE n
      lo == IF slice.start = None THEN 0 ELSE clip(slice.start[1])
      hi == IF slice.stop = None THEN Len(s) ELSE clip(slice.stop[1])
  IN IF hi <= lo THEN <<>> ELSE SubSeq(s, lo + 1, hi)

\* shard_iterable: every world_size-th element, starting at index rank.
Shard(s, rank, world_size) ==
  LET idx == {i \in 1..Len(s) : (i - 1) % world_size = rank}
      n == Cardinality(idx)
      nth(j) == CHOOSE i \in idx : Cardinality({h \in idx : h < i}) = j - 1
  IN [j \in 1..n |-> s[nth(j)]]

\* The features and coordinates the image pipeline computes for one path.
Featurize(path) == [features |-> <<"features", path>>, coords |-> <<"coords", path>>]

\* _process_image_paths: one processed image per path, in the order given.
ProcessImagePaths(image_paths) ==
  [i \in 1..Len(image_paths) |-> Featurize(image_paths[i])]

\* json.dump of a dict of dicts: the entries in insertion order.
JsonDump(d) == [i \in 1..Len(d) |-> [key |-> d[i][1], value |-> d[i][2]]]

RECURSIVE JsonLoadFrom(_, _, _)
JsonLoadFrom(text, i, acc) ==
  IF i > Len(text) THEN acc
  ELSE JsonLoadFrom(text, i + 1, DictSet(acc, text[i].key, text[i].value))

\* json.load: the dict of the entries read in order (a repeated key keeps its
\* last value).
JsonLoad(text) == JsonLoadFrom(text, 1, <<>>)

\* ------------------------------------------------------------------- reader

RECURSIVE CountAnswers(_, _, _)
\* for answer in a["answers"]: answer_counts[preprocess_answer(answer)] += 1
CountAnswers(answers, i, answer_counts) ==
  IF i > Len(answers) THEN answer_counts
  ELSE CountAnswers(answers, i + 1,
                    CounterIncr(answer_counts, PreprocessAnswer(answers[i])))

\* The answer counts of one annotation, as lines 353-358 compute them.
AnswerCounts(a, multiple_answers_per_question) ==
  IF multiple_answers_per_question
  THEN CountAnswers(a.answers, 1, <<>>)
  ELSE DictSet(<<>>, PreprocessAnswer(a.multiple_choice_answer), 1)

RECURSIVE CalculateAnswerCounts(_, _, _, _)
\* The loop over annotations["annotations"] of _get_answers_by_question_id.
CalculateAnswerCounts(annotations, i, multiple_answers_per_question, acc) ==
  IF i > Len(annotations) THEN acc
  ELSE CalculateAnswerCounts(
         annotations, i + 1, multiple_answers_per_question,
         DictSet(acc, Str(annotations[i].question_id),
                 AnswerCounts(annotations[i], multiple_answers_per_question)))

\* One cache file for every split.
CacheKeyShared(split) == <<"annotations", "-cache">>

\* The name of the cache resource of a split: split.annotations + "-cache".
CacheKey(split) == <<split.annotations[1], "-cache">>

\* The cache directory is a function from the names of the resources it holds
\* to their contents.  cache.cached(): the resource's file exists.
Cached(c, key) == key \in DOMAIN c

\* cache.writer(): the resource's file is written.
CacheWrite(c, key, text) ==
  [k \in DOMAIN c \cup {key} |-> IF k = key THEN text ELSE c[k]]

\* The resource's file is removed.
CacheRemove(c, key) == [k \in DOMAIN c \ {key} |-> c[k]]

\* _get_answers_by_question_id(split) for a reader with the given flag, run
\* against cache directory c: the dict returned, the cache directory
\* afterwards, and whether the annotation file was parsed.
GetAnswersByQuestionId(split, multiple_answers_per_question, c) ==
  IF split.annotations = None
  THEN [answers |-> <<>>, cache |-> c, parsed |-> FALSE, hit |-> FALSE]
  ELSE IF Cached(c, CacheKey(split))
  THEN [answers |-> JsonLoad(c[CacheKey(split)]),
        cache |-> c, parsed |-> FALSE, hit |-> TRUE]
  ELSE LET computed ==
             CalculateAnswerCounts(AnnotationsFile(split.annotations[1]), 1,
                                   multiple_answers_per_question, <<>>)
       IN [answers |-> computed,
           cache |-> CacheWrite(c, CacheKey(split), JsonDump(computed)),
           parsed |-> TRUE, hit |-> FALSE]

\* The key under which the answers of a question are looked up, by image.
AnswerKeyByImage(question_dict) == Str(question_dict.image_id)

\* str(question_dict["question_id"]), the key of line 265.
AnswerKey(question_dict) == Str(question_dict.question_id)

\* The labels and weights lines 316-319 collect from answer_counts, ignoring
\* the answer vocabulary.
RECURSIVE CollectAnswersUnfiltered(_, _, _, _)
CollectAnswersUnfiltered(answer_counts, answer_vocab, i, acc) ==
  IF i > Len(answer_counts) THEN acc
  ELSE CollectAnswersUnfiltered(answer_counts, answer_vocab, i + 1,
         [labels |-> Append(acc.labels, answer_counts[i][1]),
          weights |-> Append(acc.weights, get_score(answer_counts[i][2]))])

RECURSIVE CollectAnswers(_, _, _, _)
\* The loop of lines 316-319: the labels and weights of the answers that pass
\* the vocabulary test, in the order of answer_counts.items().
CollectAnswers(answer_counts, answer_vocab, i, acc) ==
  IF i > Len(answer_counts) THEN acc
  ELSE LET answer == answer_counts[i][1]
           count == answer_counts[i][2]
       IN CollectAnswers(answer_counts, answer_vocab, i + 1,
            IF answer_vocab = None \/ answer \in answer_vocab[1]
            THEN [labels |-> Append(acc.labels, answer),
                  weights |-> Append(acc.weights, get_score(count))]
            ELSE acc)

\* text_to_instance(question, image, answer_counts): None, or the instance.
\* The instance's fields are question, the box fields (when an image is
\* given) and labels / label_weights (when answer counts are given).
text_to_instance(answer_vocab, question, image, answer_counts) ==
  LET base == [question |-> question,
               box_features |-> IF image = None THEN None ELSE Some(image[1].features),
               box_coordinates |-> IF image = None THEN None ELSE Some(image[1].coords)]
  IN IF answer_counts # None
     THEN LET got == CollectAnswers(answer_counts[1], answer_vocab, 1,
                                    [labels |-> <<>>, weights |-> <<>>])
          IN IF Len(got.labels) <= 0
             THEN None
             ELSE Some([question |-> base.question,
                        box_features |-> base.box_features,
                        box_coordinates |-> base.box_coordinates,
                        labels |-> Some(got.labels),
                        label_weights |-> Some(got.weights)])
     ELSE Some([question |-> base.question,
                box_features |-> base.box_features,
                box_coordinates |-> base.box_coordinates,
                labels |-> None,
                label_weights |-> None])

\* -------------------------------------------------------------------- inputs

\* The slices a split name may carry: none, "[1:]" and "[:1]".
Slices ==
  {[start |-> None, stop |-> None],
   [start |-> Some(1), stop |-> None],
   [start |-> None, stop |-> Some(1)]}

\* The split names handed to _read in a list: the three splits and a name that
\* is not in the table, without slices.
PlainNames ==
  [name : {"unittest", "balanced_real_val", "balanced_real_test", "no_such_split"},
   slice : {[start |-> None, stop |-> None]}]

\* The split names handed to _read alone: the same, and the sliced ones.
SplitNames ==
  PlainNames \cup [name : {"unittest", "balanced_real_val"}, slice : Slices]

AnnotatedSplits == {n \in DOMAIN splits : splits[n].annotations # None}

\* splits_or_list_of_splits: a single name (read as a list of one) or a list.
SplitArgs ==
  {<<s>> : s \in SplitNames} \cup UNION {[1..n -> PlainNames] : n \in 0..MaxSplits}

\* The constructor arguments that matter to _read.
ReaderConfigs ==
  [multiple_answers_per_question : BOOLEAN,
   answer_vocab : {None, Some(AnswerVocabTokens)},
   produce_featurized_images : BOOLEAN,
   shard : {<<0, 1>>, <<1, 2>>}]

\* __init__: the reader's fields.
ReaderInit(cfg) ==
  [multiple_answers_per_question |-> cfg.multiple_answers_per_question,
   answer_vocab |-> IF cfg.answer_vocab = None THEN None
                    ELSE Some({PreprocessAnswer(a) : a \in cfg.answer_vocab[1]}),
   produce_featurized_images |-> cfg.produce_featurized_images,
   images |-> ImageFiles,
   rank |-> cfg.shard[1],
   world_size |-> cfg.shard[2]]

\* --------------------------------------------------------------------- state

VARIABLES
  cache,                      \* the cache directory: resource name -> file content
  parseCount,                 \* per split: parses since its cache entry was last evicted
  callers,                    \* per split: flags of the readers that asked since then
  pc,                         \* where the running _read generator stands
  reader,                     \* the reader whose _read is running
  splits_arg,                 \* the list of splits _read was given
  pos,                        \* how many of them have been opened
  answers_by_question_id,     \* locals of _read for the split being read
  question_dicts,
  processed_images,
  attempted_instances_count,
  failed_instances_count,
  out,                        \* the instances yielded by the running read
  opened,                     \* log: one entry per split opened
  attempts                    \* log: one entry per loop iteration

readerVars ==
  <<cache, parseCount, callers, pc, reader, splits_arg, pos,
    answers_by_question_id, question_dicts, processed_images,
    attempted_instances_count, failed_instances_count, out, opened, attempts>>

ReaderStart ==
  /\ cache = <<>>   \* the function with the empty domain
  /\ parseCount = [n \in AnnotatedSplits |-> 0]
  /\ callers = [n \in AnnotatedSplits |-> {}]
  /\ pc = "idle"
  /\ reader = ReaderInit([multiple_answers_per_question |-> TRUE,
                          answer_vocab |-> None,
                          produce_featurized_images |-> FALSE,
                          shard |-> <<0, 1>>])
  /\ splits_arg = <<>>
  /\ pos = 0
  /\ answers_by_question_id = <<>>
  /\ question_dicts = <<>>
  /\ processed_images = <<>>
  /\ attempted_instances_count = 0
  /\ failed_instances_count = 0
  /\ out = <<>>
  /\ opened = <<>>
  /\ attempts = <<>>

\* A reader is constructed and its _read is called on a split or a list.
StartRead(cfg, arg) ==
  /\ pc = "idle"
  /\ reader' = ReaderInit(cfg)
  /\ splits_arg' = arg
  /\ pos' = 0
  /\ pc' = "next"
  /\ answers_by_question_id' = <<>>
  /\ question_dicts' = <<>>
  /\ processed_images' = <<>>
  /\ attempted_instances_count' = 0
  /\ failed_instances_count' = 0
  /\ out' = <<>>
  /\ opened' = <<>>
  /\ attempts' = <<>>
  /\ UNCHANGED <<cache, parseCount, callers>>

\* The list loop stopping after its first split.
ListExhaustedAfterFirst(p, arg) == p >= Min(1, Len(arg))

\* The loop of lines 163-165 over the list of splits has no split left.
ListExhausted(p, arg) == p >= Len(arg)

\* The image paths of lines 243-245, or None when an image id is missing.
ImagePaths(images, qds) ==
  IF \E i \in 1..Len(qds) : qds[i].image_id \notin DOMAIN images
  THEN None
  ELSE Some([i \in 1..Len(qds) |-> images[qds[i].image_id]])

\* _read(split_name) from its first line to the start of the loop: the split
\* is looked up, its answers fetched, its questions loaded, sliced and
\* sharded, and the images processed.
OpenSplit ==
  /\ pc = "next"
  /\ ~ListExhausted(pos, splits_arg)
  /\ LET sliced == get_data_slice(splits_arg[pos + 1])
         question_slice == sliced[1]
         split_name == sliced[2]
     IN IF split_name \notin DOMAIN splits
        THEN \* ValueError: Unrecognized split
             /\ pc' = "raised"
             /\ pos' = pos + 1
             /\ UNCHANGED <<cache, parseCount, callers, answers_by_question_id,
                            question_dicts, processed_images,
                            attempted_instances_count, failed_instances_count,
                            opened>>
        ELSE LET split == splits[split_name]
                 flag == reader.multiple_answers_per_question
                 got == GetAnswersByQuestionId(split, flag, cache)
                 questions == SliceSeq(QuestionsFile(split.questions), question_slice)
                 qds == Shard(questions, reader.rank, reader.world_size)
                 image_paths == ImagePaths(reader.images, qds)
                 annotated == split_name \in AnnotatedSplits
                 asked == IF annotated THEN callers[split_name] \cup {flag} ELSE {}
             IN /\ annotated /\ got.parsed => parseCount[split_name] < MaxParses
                /\ cache' = got.cache
                /\ parseCount' = IF annotated /\ got.parsed
                                 THEN [parseCount EXCEPT ![split_name] = @ + 1]
                                 ELSE parseCount
                /\ callers' = IF annotated
                              THEN [callers EXCEPT ![split_name] = asked]
                              ELSE callers
                /\ answers_by_question_id' = got.answers
                /\ question_dicts' = qds
                /\ pos' = pos + 1
                /\ opened' = Append(opened,
                                    [pos |-> pos + 1, name |-> split_name,
                                     flag |-> flag, asked |-> asked,
                                     hit |-> got.hit, parsed |-> got.parsed,
                                     answers |-> got.answers, n |-> Len(qds),
                                     done |-> Len(attempts)])
                /\ attempted_instances_count' = 0
                /\ failed_instances_count' = 0
                /\ IF reader.produce_featurized_images
                   THEN IF image_paths = None
                        THEN \* KeyError: no image with that id
                             /\ pc' = "raised"
                             /\ processed_images' = <<>>
                        ELSE /\ pc' = "loop"
                             /\ processed_images' = ProcessImagePaths(image_paths[1])
                   ELSE /\ pc' = "loop"
                        /\ processed_images' = [i \in 1..Len(qds) |-> None]
  /\ UNCHANGED <<reader, splits_arg, out, attempts>>

\* One iteration of the loop of lines 264-271 over
\* zip(question_dicts, processed_images).
Attempt ==
  /\ pc = "loop"
  /\ attempted_instances_count < Min(Len(question_dicts), Len(processed_images))
  /\ LET k == attempted_instances_count + 1
         question_dict == question_dicts[k]
         processed_image ==
           IF reader.produce_featurized_images
           THEN Some(processed_images[k]) ELSE processed_images[k]
         answers == DictGet(answers_by_question_id, AnswerKey(question_dict))
         instance == text_to_instance(reader.answer_vocab, question_dict.question,
                                      processed_image, answers)
     IN /\ attempted_instances_count' = attempted_instances_count + 1
        /\ failed_instances_count' =
             IF instance = None THEN failed_instances_count + 1
             ELSE failed_instances_count
        /\ out' = IF instance = None THEN out ELSE Append(out, instance[1])
        /\ attempts' = Append(attempts,
                              [pos |-> pos, k |-> k, answers |-> answers,
                               instance |-> instance, at |-> Len(out)])
  /\ UNCHANGED <<cache, parseCount, callers, pc, reader, splits_arg, pos,
                 answers_by_question_id, question_dicts, processed_images, opened>>

\* The loop over the split is exhausted: _read(split_name) returns.
EndSplit ==
  /\ pc = "loop"
  /\ attempted_instances_count >= Min(Len(question_dicts), Len(processed_images))
  /\ pc' = "next"
  /\ UNCHANGED <<cache, parseCount, callers, reader, splits_arg, pos,
                 answers_by_question_id, question_dicts, processed_images,
                 attempted_instances_count, failed_instances_count, out, opened,
                 attempts>>

\* Every split of the list has been read: the generator is exhausted.
Finish ==
  /\ pc = "next"
  /\ ListExhausted(pos, splits_arg)
  /\ pc' = "done"
  /\ UNCHANGED <<cache, parseCount, callers, reader, splits_arg, pos,
                 answers_by_question_id, question_dicts, processed_images,
                 attempted_instances_count, failed_instances_count, out, opened,
                 attempts>>

\* The generator, exhausted or failed, is dropped with its locals.
Close ==
  /\ pc \in {"done", "raised"}
  /\ pc' = "idle"
  /\ pos' = 0
  /\ splits_arg' = <<>>
  /\ answers_by_question_id' = <<>>
  /\ question_dicts' = <<>>
  /\ processed_images' = <<>>
  /\ attempted_instances_count' = 0
  /\ failed_instances_count' = 0
  /\ out' = <<>>
  /\ opened' = <<>>
  /\ attempts' = <<>>
  /\ UNCHANGED <<cache, parseCount, callers, reader>>

\* The cache entry of a split stops being valid (its file is removed).
Evict(n) ==
  /\ pc = "idle"
  /\ Cached(cache, CacheKey(splits[n]))
  /\ cache' = CacheRemove(cache, CacheKey(splits[n]))
  /\ parseCount' = [parseCount EXCEPT ![n] = 0]
  /\ callers' = [callers EXCEPT ![n] = {}]
  /\ UNCHANGED <<pc, reader, splits_arg, pos, answers_by_question_id,
                 question_dicts, processed_images, attempted_instances_count,
                 failed_instances_count, out, opened, attempts>>

\* ------------------------------------------------------------------ decoding

\* Most decoding steps (max_decoding_steps of the model, max_steps of the
\* beam search).
MaxSteps == 3

\* A beam search retaining two hypotheses.
beam_size_two == 1 + 1

\* BeamSearch(..., beam_size=1)
beam_size == 1

\* The target vocabulary, with the model's start and end symbols.
start_index == "@start@"
end_index == "@end@"
Vocabulary == {start_index, end_index, "a"}

\* The source sequences of the batch.
Batch == {"x1", "x2"}

\* The outputs of one decoding step considered: the classes from the most to
\* the least probable, each class being the most probable in one of them.
ScoreRows ==
  {<<start_index, end_index, "a">>,
   <<end_index, "a", start_index>>,
   <<"a", start_index, end_index>>}

\* The log-probability a step's output gives a class: the better its place,
\* the higher.
LogProb(row, class) == 0 - (CHOOSE r \in 1..Len(row) : row[r] = class)

\* argmax over the classes.
Argmax(row) ==
  CHOOSE c \in Vocabulary : \A d \in Vocabulary : LogProb(row, d) <= LogProb(row, c)

\* The k hypotheses of lowest log-probability.
WorstK(candidates, k) ==
  {chosen \in SUBSET candidates :
     /\ Cardinality(chosen) = Min(k, Cardinality(candidates))
     /\ \A c \in chosen : \A d \in candidates \ chosen : c.log_prob <= d.log_prob}

\* The ways to retain the top k of a set of hypotheses.
TopK(candidates, k) ==
  {chosen \in SUBSET candidates :
     /\ Cardinality(chosen) = Min(k, Cardinality(candidates))
     /\ \A c \in chosen : \A d \in candidates \ chosen : c.log_prob >= d.log_prob}

\* A hypothesis has predicted the end symbol.
Ended(h) == h.tokens # <<>> /\ h.tokens[Len(h.tokens)] = end_index

\* The hypotheses one step makes of those of a beam: one per class for a
\* running hypothesis, the end symbol again for an ended one.
Candidates(b, hyps, table) ==
  UNION {IF Ended(h)
         THEN {[tokens |-> Append(h.tokens, end_index), log_prob |-> h.log_prob]}
         ELSE {[tokens |-> Append(h.tokens, c),
                log_prob |-> h.log_prob + LogProb(table[<<b, h.tokens>>], c)] :
                 c \in Vocabulary} : h \in hyps}

\* The predictions returned whole, without cutting at the end symbol.
Untruncated(tokens) == tokens

\* make_output_human_readable: the predicted tokens up to the first end symbol.
Truncate(tokens) ==
  IF \E i \in 1..Len(tokens) : tokens[i] = end_index
  THEN SubSeq(tokens, 1,
              (CHOOSE i \in 1..Len(tokens) :
                 tokens[i] = end_index /\ \A j \in 1..(i - 1) : tokens[j] # end_index) - 1)
  ELSE tokens

VARIABLES
  step_table,   \* the step function where it has been evaluated:
                \* <<source, tokens so far>> -> output
  dpc,          \* "greedy", "beam" or "done"
  g_preds,      \* per source: the predictions of the greedy loop
  beams         \* per source: the hypotheses the beam search retains

decodeVars == <<step_table, dpc, g_preds, beams>>

DecodeStart ==
  /\ step_table = <<>>
  /\ dpc = "greedy"
  /\ g_preds = [b \in Batch |-> <<>>]
  /\ beams = [b \in Batch |-> {[tokens |-> <<>>, log_prob |-> 0]}]

\* The step function evaluated at the points asked: where it has been
\* evaluated before it returns the same output.
Evaluate(points, ext) ==
  [p \in DOMAIN step_table \cup points |->
     IF p \in DOMAIN step_table THEN step_table[p] ELSE ext[p]]

\* One step of _forward_loop: each source's most probable class is predicted
\* and becomes the next input.
GreedyStep ==
  /\ dpc = "greedy"
  /\ \E b \in Batch : Len(g_preds[b]) < MaxSteps
  /\ LET points == {<<b, g_preds[b]>> : b \in Batch}
     IN \E ext \in [points \ DOMAIN step_table -> ScoreRows] :
          LET table == Evaluate(points, ext)
          IN /\ step_table' = table
             /\ g_preds' = [b \in Batch |->
                              Append(g_preds[b], Argmax(table[<<b, g_preds[b]>>]))]
  /\ UNCHANGED <<dpc, beams>>

\* _forward_loop has run its steps; the beam search starts.
GreedyDone ==
  /\ dpc = "greedy"
  /\ \A b \in Batch : Len(g_preds[b]) >= MaxSteps
  /\ dpc' = "beam"
  /\ UNCHANGED <<step_table, g_preds, beams>>

\* Every hypothesis of every source has ended.
AllEnded == \A b \in Batch : \A h \in beams[b] : Ended(h)

\* The number of steps the beam search has made.
BeamSteps == CHOOSE n \in 0..MaxSteps : \A b \in Batch : \A h \in beams[b] : Len(h.tokens) = n

\* One step of the beam search: the top beam_size of the hypotheses the step
\* function makes of the retained ones are retained.
BeamStep ==
  /\ dpc = "beam"
  /\ BeamSteps < MaxSteps
  /\ ~AllEnded
  /\ LET points ==
           UNION {{<<b, h.tokens>> : h \in {g \in beams[b] : ~Ended(g)}} : b \in Batch}
     IN \E ext \in [points \ DOMAIN step_table -> ScoreRows] :
          LET table == Evaluate(points, ext)
              top(b) == TopK(Candidates(b, beams[b], table), beam_size)
          IN /\ step_table' = table
             /\ \E next \in [Batch -> UNION {top(b) : b \in Batch}] :
                  /\ \A b \in Batch : next[b] \in top(b)
                  /\ beams' = next
  /\ UNCHANGED <<dpc, g_preds>>

\* The beam search stops: max_steps made, or every hypothesis ended.
BeamDone ==
  /\ dpc = "beam"
  /\ BeamSteps >= MaxSteps \/ AllEnded
  /\ dpc' = "done"
  /\ UNCHANGED <<step_table, g_preds, beams>>

\* The predictions of the beam search for a source: its best hypotheses.
BeamPredictions(b) ==
  {h.tokens : h \in {g \in beams[b] : \A d \in beams[b] : d.log_prob <= g.log_prob}}

\* ------------------------------------------------------------ specification

vars == <<readerVars, decodeVars>>

Init == ReaderStart /\ DecodeStart

\* The dataset reader.
Next ==
  \/ /\ pc = "idle"
     /\ \E cfg \in ReaderConfigs, arg \in SplitArgs : StartRead(cfg, arg)
     /\ UNCHANGED decodeVars
  \/ OpenSplit /\ UNCHANGED decodeVars
  \/ Attempt /\ UNCHANGED decodeVars
  \/ EndSplit /\ UNCHANGED decodeVars
  \/ Finish /\ UNCHANGED decodeVars
  \/ Close /\ UNCHANGED decodeVars
  \/ (\E n \in AnnotatedSplits : Evict(n)) /\ UNCHANGED decodeVars

Spec == Init /\ [][Next]_vars

\* The two decoders, run one after the other on one batch.
DecodeNext ==
  \/ GreedyStep /\ UNCHANGED readerVars
  \/ GreedyDone /\ UNCHANGED readerVars
  \/ BeamStep /\ UNCHANGED readerVars
  \/ BeamDone /\ UNCHANGED readerVars

DecodeSpec == Init /\ [][DecodeNext]_vars

\* ------------------------------------------------------- reading the logs

\* The sharded question list of the p-th split of the running read.
ShardedQuestions(p) ==
  LET sliced == get_data_slice(splits_arg[p])
  IN Shard(SliceSeq(QuestionsFile(splits[sliced[2]].questions), sliced[1]),
           reader.rank, reader.world_size)

\* The question the attempt was made for.
QuestionOf(a) == ShardedQuestions(a.pos)[a.k]

\* The annotations of a question in the annotations file of the attempt's
\* split: at most one in the files above.
AnnotationsOf(a) ==
  LET split == splits[splits_arg[a.pos].name]
  IN IF split.annotations = None THEN {}
     ELSE LET file == AnnotationsFile(split.annotations[1])
          IN {file[i] : i \in {j \in 1..Len(file) :
                                 file[j].question_id = QuestionOf(a).question_id}}

\* How often the preprocessed answer occurs among an annotation's answers.
AnnotationCount(annotation, answer) ==
  Cardinality({i \in 1..Len(annotation.answers) :
                 PreprocessAnswer(annotation.answers[i]) = answer})

SeqRange(s) == {s[i] : i \in 1..Len(s)}

Attempts == SeqRange(attempts)

\* The attempts that produced an instance with labels.
Labelled == {a \in Attempts : a.instance # None /\ a.instance[1].labels # None}

LabelsOf(a) == a.instance[1].labels[1]
WeightsOf(a) == a.instance[1].label_weights[1]

\* ------------------------------------------------------------------- claims

\* C1: with multiple_answers_per_question False, every instance yielded for
\* an annotated question carries exactly one label, the preprocessed
\* multiple_choice_answer of that question, whatever reads of the split came
\* before.
C1_OnlyMultipleChoiceAnswer ==
  ~reader.multiple_answers_per_question =>
    \A a \in Labelled : \A ann \in AnnotationsOf(a) :
      LabelsOf(a) = <<PreprocessAnswer(ann.multiple_choice_answer)>>

\* The preprocessed answer vocabulary of the constructor's argument.
PreprocessedVocab == {PreprocessAnswer(t) : t \in AnswerVocabTokens}

\* C2: with an answer vocabulary, every label of every instance is in the
\* preprocessed vocabulary, the labels are the in-vocabulary answers of the
\* question's answer counts, and a question whose answer counts hold no
\* in-vocabulary answer yields no instance.
C2_OnlyVocabAnswers ==
  reader.answer_vocab # None =>
    /\ \A i \in 1..Len(out) :
         out[i].labels # None => SeqRange(out[i].labels[1]) \subseteq PreprocessedVocab
    /\ \A a \in Attempts :
         a.answers # None =>
           LET kept == DictKeys(a.answers[1]) \cap PreprocessedVocab
           IN IF kept = {}
              THEN a.instance = None
              ELSE a \in Labelled /\ SeqRange(LabelsOf(a)) = kept

\* C2 witness: a reader with a vocabulary has dropped a question without
\* in-vocabulary answers and has yielded an instance that lost an answer.
C2_Witness ==
  /\ reader.answer_vocab # None
  /\ \E a \in Attempts : a.answers # None /\ a.instance = None
  /\ \E a \in Labelled : SeqRange(LabelsOf(a)) # DictKeys(a.answers[1])

\* C3: without an answer vocabulary (and with all answers in use, the
\* default), every question yields an instance, and the labels of an
\* annotated question are the distinct preprocessed answers of its annotation.
C3_AllInstancesAllAnswers ==
  reader.answer_vocab = None /\ reader.multiple_answers_per_question =>
    \A a \in Attempts :
      /\ a.instance # None
      /\ \A ann \in AnnotationsOf(a) :
           /\ a \in Labelled
           /\ SeqRange(LabelsOf(a)) = {PreprocessAnswer(x) : x \in SeqRange(ann.answers)}

OpenedAt(p) == CHOOSE o \in SeqRange(opened) : o.pos = p

\* The instances of the attempts that produced one, in the order of the log.
RECURSIVE YieldedBy(_, _)
YieldedBy(log, i) ==
  IF i > Len(log) THEN <<>>
  ELSE IF log[i].instance = None THEN YieldedBy(log, i + 1)
  ELSE <<log[i].instance[1]>> \o YieldedBy(log, i + 1)

\* C5: the k-th attempt of a split is made for the k-th question of its
\* sharded question list, with the processed image of that question's
\* image_id and the answer counts stored under str(question_id); the
\* instances are yielded in question order; and the number yielded from the
\* split equals attempted_instances_count - failed_instances_count.
C5_Alignment ==
  /\ \A n \in 1..Len(attempts) :
       LET a == attempts[n]
           q == QuestionOf(a)
       IN /\ a.k = Cardinality({m \in 1..n : attempts[m].pos = a.pos})
          /\ a.k <= Len(ShardedQuestions(a.pos))
          /\ a.answers = DictGet(OpenedAt(a.pos).answers, Str(q.question_id))
          /\ a.instance # None =>
               /\ a.instance[1].question = q.question
               /\ a.instance[1].box_features =
                    IF reader.produce_featurized_images
                    THEN Some(Featurize(ImageFiles[q.image_id]).features)
                    ELSE None
               /\ a.instance[1].labels = None <=> a.answers = None
  /\ out = YieldedBy(attempts, 1)
  /\ pc \in {"loop", "next", "done"} /\ opened # <<>> =>
       /\ attempted_instances_count =
            Cardinality({n \in 1..Len(attempts) : attempts[n].pos = pos})
       /\ Cardinality({n \in 1..Len(attempts) :
                         attempts[n].pos = pos /\ attempts[n].instance # None})
            = attempted_instances_count - failed_instances_count

\* C5 witness: a split has been read to its end with images, some question
\* of it failed and a later one was yielded with its own image and answers.
C5_Witness ==
  /\ pc = "next"
  /\ reader.produce_featurized_images
  /\ failed_instances_count > 0
  /\ \E n \in 1..Len(attempts) :
       /\ attempts[n].pos = pos
       /\ attempts[n].k > 1
       /\ attempts[n] \in Labelled

\* C7: when every reader that asked for a split's answers since its cache
\* entry was last absent had the same multiple_answers_per_question, the dict
\* a call returns (from the cache or not) is the one computed from the
\* annotation file; the file is parsed exactly on the calls that find
\* cache.cached() false, so at most once while the entry stays in the cache.
C7_MemoizationTransparent ==
  /\ \A o \in SeqRange(opened) :
       o.name \in AnnotatedSplits =>
         /\ Cardinality(o.asked) = 1 =>
              o.answers = CalculateAnswerCounts(
                            AnnotationsFile(splits[o.name].annotations[1]), 1,
                            o.flag, <<>>)
         /\ o.parsed <=> ~o.hit
  /\ \A n \in AnnotatedSplits :
       /\ parseCount[n] <= 1
       /\ parseCount[n] = 1 <=> Cached(cache, CacheKey(splits[n]))

\* C7 witness: a call found the cache entry written by an earlier read of a
\* reader with the same flag, and loaded a non-empty dict from it.
C7_Witness ==
  \E o \in SeqRange(opened) :
    /\ o.name \in AnnotatedSplits
    /\ o.hit
    /\ Cardinality(o.asked) = 1
    /\ o.answers # <<>>
    /\ o.pos = 1

\* The count stored for a label in the answer counts of the attempt.
StoredCount(a, label) == DictGet(a.answers[1], label)[1]

\* C8: get_score(count) is min(1, count / 3) for count >= 0: within [0, 1],
\* non-decreasing, 1 exactly from count 3 on; and every label weight of an
\* instance is get_score of that label's count, so positive and at most 1.
C8_ScoreRange ==
  /\ \A c \in 0..MaxCount :
       /\ RatLeq(<<0, 1>>, get_score(c)) /\ RatLeq(get_score(c), <<1, 1>>)
       /\ RatEq(get_score(c), <<1, 1>>) <=> c >= 3
       /\ c < 3 => RatEq(get_score(c), <<c, 3>>)
       /\ c > 0 => RatLeq(get_score(c - 1), get_score(c))
  /\ \A a \in Labelled :
       /\ Len(WeightsOf(a)) = Len(LabelsOf(a))
       /\ \A i \in 1..Len(LabelsOf(a)) :
            /\ WeightsOf(a)[i] = get_score(StoredCount(a, LabelsOf(a)[i]))
            /\ RatLess(<<0, 1>>, WeightsOf(a)[i])
            /\ RatLeq(WeightsOf(a)[i], <<1, 1>>)

\* C8 witness: an instance carries a label counted 4 times with weight 1 and
\* another instance a label counted twice with weight 2/3.
C8_Witness ==
  /\ \E a \in Labelled : \E i \in 1..Len(LabelsOf(a)) :
       StoredCount(a, LabelsOf(a)[i]) = 4 /\ RatEq(WeightsOf(a)[i], <<1, 1>>)
  /\ \E a \in Labelled : \E i \in 1..Len(LabelsOf(a)) :
       StoredCount(a, LabelsOf(a)[i]) = 2 /\ RatEq(WeightsOf(a)[i], <<2, 3>>)

\* C9: the splits of a list are read one after the other: the entries of the
\* log of opened splits are the list's splits in order, each split is opened
\* only after every question of the one before has been attempted, the
\* instances come out in that order, and a read that ends normally has opened
\* every split of the list (none when the list is empty).
C9_SplitsConcatenated ==
  /\ \A i \in 1..Len(opened) :
       /\ opened[i].pos = i
       /\ opened[i].name = splits_arg[i].name
       /\ opened[i].done = Cardinality({n \in 1..Len(attempts) : attempts[n].pos < i})
       /\ \A n \in 1..Len(attempts) : attempts[n].pos < i <=> n <= opened[i].done
       /\ i < Len(opened) =>
            Cardinality({n \in 1..Len(attempts) : attempts[n].pos = i}) = opened[i].n
  /\ \A n \in 1..Len(attempts) :
       /\ attempts[n].pos \in 1..Len(opened)
       /\ attempts[n].at =
            Cardinality({m \in 1..(n - 1) : attempts[m].instance # None})
  /\ pc = "done" =>
       /\ Len(opened) = Len(splits_arg)
       /\ opened # <<>> =>
            Len(attempts) = opened[Len(opened)].done + opened[Len(opened)].n
       /\ splits_arg = <<>> => out = <<>>

\* C9 witness: a read of a list of two splits has ended, with instances of
\* both splits yielded.
C9_Witness ==
  /\ pc = "done"
  /\ Len(splits_arg) = 2
  /\ \E n, m \in 1..Len(attempts) :
       /\ attempts[n].pos = 1 /\ attempts[n].instance # None
       /\ attempts[m].pos = 2 /\ attempts[m].instance # None

====
